---- MODULE Spec2Model ----
(***************************************************************************)
(* Quantova-Tools: the post-quantum demonstration programs.                *)
(*                                                                         *)
(* Every program is a short sequence of calls into an external library     *)
(* (pqcrypto-*, liboqs, ring).  The state below is the state of ONE        *)
(* process: which executable runs (prog), where it is (pc), its local      *)
(* values, what it has done so far (log), the file public_key.bin and the  *)
(* exit status.  The libraries are not part of the repository; they are    *)
(* modelled by the contract the specification states for them (section 8), *)
(* and a second specification, SpecAnyLib, drops that contract so that     *)
(* the programs' failure branches are exercised.                           *)
(***************************************************************************)
EXTENDS Integers, Sequences, FiniteSets, TLC

VARIABLES
    prog,             \* the executable, or the function under test
    library,          \* "correct": the libraries keep their contract; "arbitrary": verify/decapsulate may answer anything
    pc,               \* position in the program
    choice,           \* toolkit main: the line read from stdin
    message,          \* the message (data) the current demo signs
    public_key,       \* pk of the current demo (bytes), <<>> before keypair
    secret_key,       \* sk of the current demo (bytes), <<>> before keypair
    signature,        \* the signature / signed message / aggregated signature being verified
    verified,         \* "none", "ok", "err": outcome of verify / open / the secret comparison
    valid_message,    \* what open() returned in its Ok branch
    shared_secret_1,  \* KEM: the sender's secret
    ciphertext,       \* KEM: the ciphertext
    shared_secret_2,  \* KEM: the receiver's secret
    shares,           \* threshold: key index -> share bytes
    visited,          \* threshold: the share indices the signing loop has iterated
    partial_sigs,     \* threshold: Vec<Signature>
    private_key,      \* hybrid: the Ed25519 seed
    classic_public_key, \* hybrid: the Ed25519 public key bytes
    classic_signature,  \* hybrid: the Ed25519 signature
    hybrid_signature,   \* hybrid: the concatenation
    classic_valid,      \* hybrid: "none", "ok", "err"
    file,             \* content of public_key.bin; Absent when there is no such file
    log,              \* the library calls made and lines printed by the current run (toolkit: since the last menu)
    exit_code         \* Running, or the process's exit status

vars == <<prog, library, pc, choice, message, public_key, secret_key, signature, verified,
          valid_message, shared_secret_1, ciphertext, shared_secret_2, shares,
          visited, partial_sigs, private_key, classic_public_key,
          classic_signature, hybrid_signature, classic_valid, file, log, exit_code>>

(***************************************************************************)
(* Bounds.                                                                 *)
(***************************************************************************)
\* Bytes are 0..MaxByte (u8 scaled down).
MaxByte == 1
\* The randomness a randomized signing call may draw: 0..MaxNonce.
MaxNonce == 1

\* The longest byte string handed to reconstruct_keys_from_bytes.
MaxKeyLen == 3

Byte == 0..MaxByte
Nonce == 0..MaxNonce

\* exit_code while the process runs, after a normal exit and after a panic
Running == <<>>
Exited(status) == <<status>>
Panicked == <<101>>
\* the file public_key.bin: <<exists, content>>
Absent == <<FALSE, <<>>>>
Present(bytes) == <<TRUE, bytes>>

(***************************************************************************)
(* Program constants.                                                      *)
(***************************************************************************)
THRESHOLD == 3
TOTAL_SHARES == 5

PqSigPrograms == {"dilithium3", "falcon512", "sphincs"}
KemPrograms == {"frodokem", "ntru", "ntru_workflow"}
Programs == PqSigPrograms \cup KemPrograms \cup {"toolkit"}

(***************************************************************************)
(* The libraries, by the contract the specification states for them.       *)
(* A secret key is one byte <<s>>; its public key is <<s, s>>.  A          *)
(* signature is <<signer, message, nonce>>: it names the secret key that   *)
(* made it and the message it covers, which is all that verification       *)
(* looks at.  An Ed25519 signature is deterministic: <<signer, message>>.  *)
(***************************************************************************)
PkOf(sk) == <<sk[1], sk[1]>>

\* keypair(): every key pair the library can return
KeyPairs == {<<PkOf(<<s>>), <<s>>>> : s \in Byte}

\* sign(message, sk) with the randomness n
LibSign(msg, sk, n) == <<sk[1], msg, n>>

\* verify(message, signature, pk) is Ok
LibVerify(msg, sig, pk) ==
    /\ Len(sig) = 3
    /\ pk = PkOf(<<sig[1]>>)
    /\ sig[2] = msg

\* open(signed_message, pk): Ok(message) or Err
LibOpen(sm, pk) ==
    IF Len(sm) = 3 /\ pk = PkOf(<<sm[1]>>) THEN <<"Ok", sm[2]>> ELSE <<"Err", "">>

\* Ed25519KeyPair::sign(data) and UnparsedPublicKey::verify
Ed25519Sign(data, seed) == <<seed[1], data>>
Ed25519Verify(data, sig, pk) ==
    /\ Len(sig) = 2
    /\ pk = PkOf(<<sig[1]>>)
    /\ sig[2] = data

\* encapsulate(pk) choosing the secret ss: <<shared secret, ciphertext>>
LibEncapsulate(pk, ss) == <<<<ss>>, <<pk[1], ss>>>>

\* decapsulate(ct, sk): the encapsulated secret for the matching key, another
\* value (implicit rejection) for any other key
LibDecapsulate(ct, sk) ==
    IF ct[1] = sk[1] THEN <<ct[2]>> ELSE <<(ct[2] + 1) % (MaxByte + 1)>>

\* What the library may answer: its contract when library = "correct",
\* anything of the right type when library = "arbitrary".
VerifyAnswers(msg, sig, pk) ==
    IF library = "correct" THEN {LibVerify(msg, sig, pk)} ELSE BOOLEAN

OpenAnswers(sm, pk) ==
    IF library = "correct" THEN {LibOpen(sm, pk)} ELSE {<<"Ok", sm[2]>>, <<"Err", "">>}

Ed25519VerifyAnswers(data, sig, pk) ==
    IF library = "correct" THEN {Ed25519Verify(data, sig, pk)} ELSE BOOLEAN

DecapsulateAnswers(ct, sk) ==
    IF library = "correct" THEN {LibDecapsulate(ct, sk)} ELSE {<<b>> : b \in Byte}

(***************************************************************************)
(* Helpers.                                                                *)
(***************************************************************************)
kemVars == <<shared_secret_1, ciphertext, shared_secret_2>>
thrVars == <<shares, visited, partial_sigs>>
hybVars == <<private_key, classic_public_key, classic_signature, hybrid_signature, classic_valid>>
envVars == <<prog, library, file, choice, message>>

\* what public_key.bin may hold when a process starts
OldContent == <<0, 0, 0>>
InitialFiles == {Absent, Present(OldContent)}

\* main's `message` of the three pqcrypto signature programs
PqMessage == "Quantum Resistant Blockchain Message"

Call(what, who) == <<what, who>>
Println(text) == <<"print", text>>
Eprintln(text) == <<"eprint", text>>
Panic(text) == <<"panic", text>>

\* the state of a process of one of `programs` when it starts
Start(programs, lib) ==
    /\ prog \in programs
    /\ library = lib
    /\ pc = "start"
    /\ choice = <<>>
    /\ message = (IF prog \in PqSigPrograms THEN PqMessage ELSE "")
    /\ public_key = <<>>
    /\ secret_key = <<>>
    /\ signature = <<>>
    /\ verified = "none"
    /\ valid_message = ""
    /\ shared_secret_1 = <<>>
    /\ ciphertext = <<>>
    /\ shared_secret_2 = <<>>
    /\ shares = <<>>
    /\ visited = {}
    /\ partial_sigs = <<>>
    /\ private_key = <<>>
    /\ classic_public_key = <<>>
    /\ classic_signature = <<>>
    /\ hybrid_signature = <<>>
    /\ classic_valid = "none"
    /\ file \in InitialFiles
    /\ log = <<>>
    /\ exit_code = Running

Init == Start(Programs, "correct")

InitAnyLib == Start(Programs, "arbitrary")

(***************************************************************************)
(* pqcrypto/dilithium3, pqcrypto/falcon, pqcrypto/sphincs: main.           *)
(***************************************************************************)
\* let (pk, sk) = keypair(); println!("Public Key: ...")
PqKeypair ==
    /\ prog \in PqSigPrograms
    /\ pc = "start"
    /\ \E kp \in KeyPairs :
         /\ public_key' = kp[1]
         /\ secret_key' = kp[2]
    /\ log' = log \o <<Call("keypair", prog), Println("Public Key")>>
    /\ pc' = "sign"
    /\ UNCHANGED <<envVars, signature, verified, valid_message, kemVars, thrVars,
                   hybVars, exit_code>>

\* let signed_message = sign(message, &sk); println!("Signed Message Length ...")
PqSign ==
    /\ prog \in PqSigPrograms
    /\ pc = "sign"
    /\ \E n \in Nonce : signature' = LibSign(message, secret_key, n)
    /\ log' = log \o <<Call("sign", prog), Println("Signed Message Length")>>
    /\ pc' = "open"
    /\ UNCHANGED <<envVars, public_key, secret_key, verified, valid_message, kemVars,
                   thrVars, hybVars, exit_code>>

PqOpenResult_OtherKey == OpenAnswers(signature, PkOf(<<(secret_key[1] + 1) % (MaxByte + 1)>>))

\* open(&signed_message, &pk)
PqOpenResult == OpenAnswers(signature, public_key)

\* match open(&signed_message, &pk) { Ok(valid_message) => println!("Verified
\* successfully ..."), Err(_) => println!("Signature verification failed!") };
\* main then returns.
PqOpen ==
    /\ prog \in PqSigPrograms
    /\ pc = "open"
    /\ \E r \in PqOpenResult :
         IF r[1] = "Ok"
         THEN /\ verified' = "ok"
              /\ valid_message' = r[2]
              /\ log' = log \o <<Call("open", prog), Println("Verified successfully")>>
         ELSE /\ verified' = "err"
              /\ valid_message' = valid_message
              /\ log' = log \o <<Call("open", prog), Println("Signature verification failed!")>>
    /\ pc' = "done"
    /\ exit_code' = Exited(0)
    /\ UNCHANGED <<envVars, public_key, secret_key, signature, kemVars, thrVars, hybVars>>

(***************************************************************************)
(* pqcrypto/frodokem and pqcrypto/ntru-encrypt: main, and ntru-encrypt's   *)
(* example_encrypt_decrypt_workflow (prog = "ntru_workflow").              *)
(***************************************************************************)
\* let (pk, sk) = keypair();
KemKeypair ==
    /\ prog \in KemPrograms
    /\ pc = "start"
    /\ \E kp \in KeyPairs :
         /\ public_key' = kp[1]
         /\ secret_key' = kp[2]
    /\ log' = log \o (<<Call("keypair", prog)>> \o
                      IF prog = "ntru_workflow" THEN <<>> ELSE <<Println("Public Key")>>)
    /\ pc' = "encapsulate"
    /\ UNCHANGED <<envVars, signature, verified, valid_message, kemVars, thrVars,
                   hybVars, exit_code>>

\* let (ss_sender, ct) = encapsulate(&pk);
KemEncapsulate ==
    /\ prog \in KemPrograms
    /\ pc = "encapsulate"
    /\ \E ss \in Byte :
         /\ shared_secret_1' = LibEncapsulate(public_key, ss)[1]
         /\ ciphertext' = LibEncapsulate(public_key, ss)[2]
    /\ log' = log \o (<<Call("encapsulate", prog)>> \o
                      IF prog = "ntru_workflow" THEN <<>> ELSE <<Println("Ciphertext")>>)
    /\ pc' = "decapsulate"
    /\ UNCHANGED <<envVars, public_key, secret_key, signature, verified, valid_message,
                   shared_secret_2, thrVars, hybVars, exit_code>>

DecapsulateResult_OtherKey ==
    DecapsulateAnswers(ciphertext, <<(secret_key[1] + 1) % (MaxByte + 1)>>)

\* decapsulate(&ct, &sk)
DecapsulateResult == DecapsulateAnswers(ciphertext, secret_key)

\* let ss_receiver = decapsulate(&ct, &sk);
KemDecapsulate ==
    /\ prog \in KemPrograms
    /\ pc = "decapsulate"
    /\ shared_secret_2' \in DecapsulateResult
    /\ log' = log \o (<<Call("decapsulate", prog)>> \o
                      IF prog = "frodokem" THEN <<Println("Shared Secret (Receiver side)")>>
                      ELSE <<>>)
    /\ pc' = "compare"
    /\ UNCHANGED <<envVars, public_key, secret_key, signature, verified, valid_message,
                   shared_secret_1, ciphertext, thrVars, hybVars, exit_code>>

Asserts_All(p) == TRUE

\* which of the three compares the secrets with assert_eq!
Asserts(p) == p = "ntru_workflow"

\* frodokem: if ss_sender.as_bytes() == ss_receiver.as_bytes() {..} else {..}; println!(completed)
\* ntru: let success = ss1 == ss2; println!("Shared secrets match: {}", success); ...
\* ntru_workflow: assert_eq!(alice_shared_secret, bob_shared_secret)
KemCompare ==
    /\ prog \in KemPrograms
    /\ pc = "compare"
    /\ verified' = IF shared_secret_1 = shared_secret_2 THEN "ok" ELSE "err"
    /\ IF Asserts(prog) /\ shared_secret_1 # shared_secret_2
       THEN /\ log' = Append(log, Panic("assertion failed"))
            /\ pc' = "panicked"
            /\ exit_code' = Panicked
       ELSE /\ log' = log \o
                 CASE prog = "frodokem" ->
                        <<Println(IF shared_secret_1 = shared_secret_2
                                THEN "Shared secrets match!"
                                ELSE "Shared secrets DO NOT match!"),
                          Println("FrodoKEM-976-AES example completed.")>>
                   [] prog = "ntru" ->
                        <<Println(IF shared_secret_1 = shared_secret_2
                                THEN "Shared secrets match: true"
                                ELSE "Shared secrets match: false"),
                          Println("Shared secret (first 16 bytes)")>>
                   [] OTHER -> <<>>
            /\ pc' = "done"
            /\ exit_code' = Exited(0)
    /\ UNCHANGED <<envVars, public_key, secret_key, signature, valid_message, kemVars,
                   thrVars, hybVars>>

(***************************************************************************)
(* rust-liboqs: the toolkit.  Every Result of Sig::new, keypair, sign, the *)
(* RNG and the Ed25519 constructor is unwrapped.                           *)
(***************************************************************************)
Unwrap_Propagate(site, text) ==
    /\ log' = log \o <<Call("failed", site)>>
    /\ pc' = "menu"
    /\ exit_code' = exit_code

\* .unwrap() / .expect(text) on an Err: the thread panics, and with it the process
Unwrap(site, text) ==
    /\ log' = log \o <<Call("failed", site), Panic(text)>>
    /\ pc' = "panicked"
    /\ exit_code' = Panicked

\* Result::is_ok
is_ok(r) == r = "Ok"

\* Sig::verify(message, signature, public_key): the Results it may return
SigVerify(msg, sig, pk) ==
    {IF a THEN "Ok" ELSE "Err" : a \in VerifyAnswers(msg, sig, pk)}

Ed25519VerifyResults(data, sig, pk) ==
    {IF a THEN "Ok" ELSE "Err" : a \in Ed25519VerifyAnswers(data, sig, pk)}

Bool(b) == IF b THEN "true" ELSE "false"

AuthVerifySignature_Unwrap(pk, msg, sig) ==
    {IF is_ok(r) THEN "true" ELSE "abort" : r \in SigVerify(msg, sig, pk)}

\* QuantumSafeAuth::verify_signature: sig.verify(message, signature, &self.public_key).is_ok()
AuthVerifySignature(pk, msg, sig) ==
    {Bool(is_ok(r)) : r \in SigVerify(msg, sig, pk)}

\* PQSchnorr::verify
SchnorrVerify(pk, msg, sig) ==
    {Bool(is_ok(r)) : r \in SigVerify(msg, sig, pk)}

\* QuantumSafeThreshold::verify_signature
ThresholdVerifySignature(pk, msg, sig) ==
    {Bool(is_ok(r)) : r \in SigVerify(msg, sig, pk)}

\* verify_classically(data, signature, public_key)
verify_classically(data, sig, pk) ==
    {Bool(is_ok(r)) : r \in Ed25519VerifyResults(data, sig, pk)}

\* sign_classically(data, private_key)
sign_classically(data, key) == Ed25519Sign(data, key)

AuthMessage == "Quantum-safe authentication message"
SchnorrMessage == "Post-Quantum Schnorr Signature Example"
ThresholdMessage == "Hello, Quantum World!"
HybridData == "hybrid cryptography message!"

(***************************************************************************)
(* main.rs: the menu loop.                                                 *)
(***************************************************************************)
Whitespace == {" ", "\t", "\n", "\r"}

RECURSIVE TrimStart(_)
TrimStart(s) ==
    IF s # <<>> /\ Head(s) \in Whitespace THEN TrimStart(Tail(s)) ELSE s

RECURSIVE TrimEnd(_)
TrimEnd(s) ==
    IF s # <<>> /\ s[Len(s)] \in Whitespace THEN TrimEnd(SubSeq(s, 1, Len(s) - 1)) ELSE s

\* str::trim
trim(s) == TrimEnd(TrimStart(s))

\* the lines read_line may deliver (<<>>: end of input)
InputLines ==
    { <<>>, <<"\n">>, <<"1", "\n">>, <<"2", "\n">>, <<"3", "\n">>, <<"4", "\n">>,
      <<"5", "\n">>, <<"5">>, <<" ", "1", "\r", "\n">>, <<"\t", "3", " ", "\n">>,
      <<"x", "\n">>, <<"0", "\n">>, <<"6", "\n">>, <<"1", "2", "\n">>,
      <<"1", " ", "2", "\n">> }

\* match arms "2" and "3" exchanged
Dispatch_Swapped(c) ==
    CASE c = <<"1">> -> "auth_new"
      [] c = <<"2">> -> "sch_new"
      [] c = <<"3">> -> "hyb_classic"
      [] c = <<"4">> -> "thr_new"
      [] c = <<"5">> -> "done"
      [] OTHER -> "menu"

\* match choice.trim() { "1" => ..., "5" => break, _ => invalid }: where main goes
Dispatch(c) ==
    CASE c = <<"1">> -> "auth_new"
      [] c = <<"2">> -> "hyb_classic"
      [] c = <<"3">> -> "sch_new"
      [] c = <<"4">> -> "thr_new"
      [] c = <<"5">> -> "done"
      [] OTHER -> "menu"

\* what the chosen arm prints before it calls the demo
ArmPrints(target) ==
    CASE target = "auth_new" -> <<Println("Running Quantum-Safe Authentication...")>>
      [] target = "hyb_classic" -> <<Println("Running Hybrid Cryptography..."),
                                     Println("Hybrid Cryptography Demo.")>>
      [] target = "sch_new" -> <<Println("Running Post-Quantum Schnorr Signatures..."),
                                 Println("Message")>>
      [] target = "thr_new" -> <<Println("Running Threshold Signatures..."),
                                 Println("Original Message")>>
      [] target = "done" -> <<Println("Exiting...")>>
      [] OTHER -> <<Println("Invalid option. Please try again.")>>

\* the message (data) the demo behind an arm signs
DemoMessage(target) ==
    CASE target = "auth_new" -> AuthMessage
      [] target = "hyb_classic" -> HybridData
      [] target = "sch_new" -> SchnorrMessage
      [] target = "thr_new" -> ThresholdMessage
      [] OTHER -> ""

\* a demo's locals go out of scope
ResetLocals ==
    /\ public_key' = <<>>
    /\ secret_key' = <<>>
    /\ signature' = <<>>
    /\ verified' = "none"
    /\ valid_message' = ""
    /\ shares' = <<>>
    /\ visited' = {}
    /\ partial_sigs' = <<>>
    /\ private_key' = <<>>
    /\ classic_public_key' = <<>>
    /\ classic_signature' = <<>>
    /\ hybrid_signature' = <<>>
    /\ classic_valid' = "none"

\* one iteration of main's loop up to the call of the demo
Menu ==
    /\ prog = "toolkit"
    /\ pc \in {"start", "menu"}
    /\ \/ /\ log' = <<Println("menu"), Call("failed", "flush"), Panic("flush")>>
          /\ pc' = "panicked"
          /\ exit_code' = Panicked
          /\ choice' = <<>>
          /\ message' = ""
       \/ /\ log' = <<Println("menu"), Call("failed", "read_line"),
                      Panic("Failed to read input.")>>
          /\ pc' = "panicked"
          /\ exit_code' = Panicked
          /\ choice' = <<>>
          /\ message' = ""
       \/ \E line \in InputLines :
            /\ choice' = line
            /\ message' = DemoMessage(Dispatch(trim(line)))
            /\ pc' = Dispatch(trim(line))
            /\ log' = <<Println("menu"), Call("read_line", "stdin")>>
                      \o ArmPrints(Dispatch(trim(line)))
            /\ exit_code' = IF Dispatch(trim(line)) = "done" THEN Exited(0) ELSE Running
    /\ UNCHANGED <<prog, library, file, public_key, secret_key, signature, verified,
                   valid_message, kemVars, thrVars, hybVars>>

(***************************************************************************)
(* authentication.rs                                                       *)
(***************************************************************************)
\* QuantumSafeAuth::new
AuthNew ==
    /\ prog = "toolkit"
    /\ pc = "auth_new"
    /\ \/ /\ Unwrap("Sig::new", "Failed to create signature scheme.")
          /\ UNCHANGED <<public_key, secret_key>>
       \/ /\ Unwrap("keypair", "Key pair generation failed.")
          /\ UNCHANGED <<public_key, secret_key>>
       \/ /\ \E kp \in KeyPairs :
               /\ public_key' = kp[1]
               /\ secret_key' = kp[2]
          /\ log' = log \o <<Call("keypair", "authentication"),
                             Println("Quantum-safe key pair generated."),
                             Println("Message")>>
          /\ pc' = "auth_sign"
          /\ exit_code' = exit_code
    /\ UNCHANGED <<envVars, signature, verified, valid_message, kemVars, thrVars, hybVars>>

AuthSign_Rekey ==
    /\ prog = "toolkit"
    /\ pc = "auth_sign"
    /\ \E kp \in KeyPairs, n \in Nonce :
         /\ secret_key' = kp[2]
         /\ signature' = LibSign(message, kp[2], n)
    /\ log' = log \o <<Call("keypair", "authentication"), Call("sign", "authentication"),
                       Println("Signature generated.")>>
    /\ pc' = "auth_verify"
    /\ UNCHANGED <<envVars, public_key, verified, valid_message, kemVars, thrVars,
                   hybVars, exit_code>>

\* QuantumSafeAuth::sign_message(message) with the randomness n
sign_message(msg, n) == LibSign(msg, secret_key, n)

\* let signature = auth.sign_message(message); println!("Signature generated.")
AuthSign ==
    /\ prog = "toolkit"
    /\ pc = "auth_sign"
    /\ \/ /\ Unwrap("Sig::new", "Failed to create signature scheme.")
          /\ UNCHANGED signature
       \/ /\ Unwrap("sign", "Signing failed.")
          /\ UNCHANGED signature
       \/ /\ \E n \in Nonce : signature' = sign_message(message, n)
          /\ log' = log \o <<Call("sign", "authentication"), Println("Signature generated.")>>
          /\ pc' = "auth_verify"
          /\ exit_code' = exit_code
    /\ UNCHANGED <<envVars, public_key, secret_key, verified, valid_message, kemVars,
                   thrVars, hybVars>>

\* auth.verify_signature(message, &signature)
AuthVerifyResult == AuthVerifySignature(public_key, message, signature)

\* if auth.verify_signature(message, &signature) { println!(successful) } else { println!(failed) }
AuthVerify ==
    /\ prog = "toolkit"
    /\ pc = "auth_verify"
    /\ \/ /\ Unwrap("Sig::new", "Failed to create signature scheme.")
          /\ UNCHANGED verified
       \/ /\ \E r \in AuthVerifyResult :
               /\ verified' = IF r = "true" THEN "ok" ELSE "err"
               /\ log' = log \o <<Call("verify", "authentication"),
                                  Println(IF r = "true"
                                          THEN "Signature verification successful!"
                                          ELSE "Signature verification failed!")>>
          /\ pc' = "auth_save"
          /\ exit_code' = exit_code
    /\ UNCHANGED <<envVars, public_key, secret_key, signature, valid_message, kemVars,
                   thrVars, hybVars>>

save_to_file_Append(bytes, old) ==
    {<<"Err", old>>, <<"Ok", Present(old[2] \o bytes)>>}

\* QuantumSafeAuth::save_to_file: File::create(filename)? (creates or truncates),
\* file.write_all(public_key)?.  <<result, the file afterwards>>
save_to_file(bytes, old) ==
    {<<"Err", old>>}
        \cup {<<"Err", Present(SubSeq(bytes, 1, k))>> : k \in 0..(Len(bytes) - 1)}
        \cup {<<"Ok", Present(bytes)>>}

\* match auth.save_to_file("public_key.bin") { Ok(_) => println!, Err(e) => eprintln! }
AuthSave ==
    /\ prog = "toolkit"
    /\ pc = "auth_save"
    /\ \E r \in save_to_file(public_key, file) :
         /\ file' = r[2]
         /\ log' = log \o <<Call("save_to_file", "public_key.bin"),
                            IF r[1] = "Ok" THEN Println("Public key saved to file.")
                            ELSE Eprintln("Failed to save public key")>>
    /\ pc' = "auth_terminate"
    /\ UNCHANGED <<prog, library, choice, message, public_key, secret_key, signature,
                   verified, valid_message, kemVars, thrVars, hybVars, exit_code>>

\* terminate() returning to its caller instead of ending the process
AuthTerminate_Return ==
    /\ prog = "toolkit"
    /\ pc = "auth_terminate"
    /\ log' = log \o <<Println("Terminating the process.")>>
    /\ pc' = "return"
    /\ exit_code' = exit_code
    /\ UNCHANGED <<envVars, public_key, secret_key, signature, verified, valid_message,
                   kemVars, thrVars, hybVars>>

\* auth.terminate(): println!("Terminating the process."); process::exit(0)
AuthTerminate ==
    /\ prog = "toolkit"
    /\ pc = "auth_terminate"
    /\ log' = log \o <<Println("Terminating the process."), Call("exit", "0")>>
    /\ pc' = "done"
    /\ exit_code' = Exited(0)
    /\ UNCHANGED <<envVars, public_key, secret_key, signature, verified, valid_message,
                   kemVars, thrVars, hybVars>>

(***************************************************************************)
(* schnorr.rs                                                              *)
(***************************************************************************)
\* PQSchnorr::new
SchNew ==
    /\ prog = "toolkit"
    /\ pc = "sch_new"
    /\ \/ /\ Unwrap("Sig::new", "unwrap")
          /\ UNCHANGED <<public_key, secret_key>>
       \/ /\ Unwrap("keypair", "unwrap")
          /\ UNCHANGED <<public_key, secret_key>>
       \/ /\ \E kp \in KeyPairs :
               /\ public_key' = kp[1]
               /\ secret_key' = kp[2]
          /\ log' = log \o <<Call("keypair", "schnorr"),
                             Println("Post-Quantum Schnorr Key Pair Generated!")>>
          /\ pc' = "sch_sign"
          /\ exit_code' = exit_code
    /\ UNCHANGED <<envVars, signature, verified, valid_message, kemVars, thrVars, hybVars>>

\* PQSchnorr::sign
SchSign ==
    /\ prog = "toolkit"
    /\ pc = "sch_sign"
    /\ \/ /\ Unwrap("Sig::new", "unwrap")
          /\ UNCHANGED signature
       \/ /\ Unwrap("sign", "unwrap")
          /\ UNCHANGED signature
       \/ /\ \E n \in Nonce : signature' = LibSign(message, secret_key, n)
          /\ log' = log \o <<Call("sign", "schnorr"), Println("Signature created for message"),
                             Println("Verifying Signature...")>>
          /\ pc' = "sch_verify"
          /\ exit_code' = exit_code
    /\ UNCHANGED <<envVars, public_key, secret_key, verified, valid_message, kemVars,
                   thrVars, hybVars>>

\* pq_schnorr.verify(message, &signature); schnorr() then returns to main's loop
SchVerify ==
    /\ prog = "toolkit"
    /\ pc = "sch_verify"
    /\ \/ /\ Unwrap("Sig::new", "unwrap")
          /\ UNCHANGED verified
       \/ /\ \E r \in SchnorrVerify(public_key, message, signature) :
               /\ verified' = IF r = "true" THEN "ok" ELSE "err"
               /\ log' = log \o <<Call("verify", "schnorr"),
                                  Println(IF r = "true"
                                          THEN "Signature verification successful!"
                                          ELSE "Signature verification failed!")>>
          /\ pc' = "return"
          /\ exit_code' = exit_code
    /\ UNCHANGED <<envVars, public_key, secret_key, signature, valid_message, kemVars,
                   thrVars, hybVars>>

(***************************************************************************)
(* threshold.rs                                                            *)
(***************************************************************************)
\* QuantumSafeThreshold::new
ThrNew ==
    /\ prog = "toolkit"
    /\ pc = "thr_new"
    /\ \/ /\ Unwrap("Sig::new", "unwrap")
          /\ UNCHANGED <<public_key, secret_key>>
       \/ /\ Unwrap("keypair", "unwrap")
          /\ UNCHANGED <<public_key, secret_key>>
       \/ /\ \E kp \in KeyPairs :
               /\ public_key' = kp[1]
               /\ secret_key' = kp[2]
          /\ log' = log \o <<Call("keypair", "threshold"),
                             Println("Quantum-safe key pair generated."),
                             Println("Splitting private key into shares...")>>
          /\ pc' = "thr_split"
          /\ exit_code' = exit_code
    /\ UNCHANGED <<envVars, signature, verified, valid_message, kemVars, thrVars, hybVars>>

\* the values rand::random() is let to return for a share's byte: the least and
\* the greatest byte (a share is never read, so its bytes are sampled, not enumerated)
RandomBytes == {0, MaxByte}

\* QuantumSafeThreshold::split_private_key: every map it may return.  Each of the
\* TOTAL_SHARES entries is secret_key.len() bytes drawn from rand::random().
split_private_key ==
    [0..(TOTAL_SHARES - 1) -> [1..Len(secret_key) -> RandomBytes]]

\* let shares = threshold.split_private_key(); println!("Total shares generated")
ThrSplit ==
    /\ prog = "toolkit"
    /\ pc = "thr_split"
    /\ shares' \in split_private_key
    /\ log' = log \o <<Call("random", "shares"), Println("Total shares generated"),
                       Println("Generating partial signatures...")>>
    /\ pc' = "thr_sign"
    /\ UNCHANGED <<envVars, public_key, secret_key, signature, verified, valid_message,
                   kemVars, visited, partial_sigs, hybVars, exit_code>>

LoopLength_All == TOTAL_SHARES

\* shares.iter().take(THRESHOLD): how many entries the loop visits
LoopLength == IF THRESHOLD < TOTAL_SHARES THEN THRESHOLD ELSE TOTAL_SHARES

partial_sign_WithShare(msg, n) == LibSign(msg, shares[0], n)

\* QuantumSafeThreshold::partial_sign(message) with the randomness n
partial_sign(msg, n) == LibSign(msg, secret_key, n)

\* the loop visiting its entries without pushing the partial signatures
ThrPartialSign_NoPush ==
    /\ prog = "toolkit"
    /\ pc = "thr_sign"
    /\ Cardinality(visited) < LoopLength
    /\ \E i \in (DOMAIN shares) \ visited :
         visited' = visited \cup {i}
    /\ log' = log \o <<Call("sign", "threshold"), Println("Partial Signature")>>
    /\ UNCHANGED <<envVars, public_key, secret_key, signature, verified, valid_message,
                   kemVars, shares, partial_sigs, hybVars, pc, exit_code>>

\* one iteration of: for (i, _) in shares.iter().take(THRESHOLD) { partial_sign; push }
\* A HashMap iterates in an unspecified order: i is any key not yet visited.
ThrPartialSign ==
    /\ prog = "toolkit"
    /\ pc = "thr_sign"
    /\ Cardinality(visited) < LoopLength
    /\ \/ /\ Unwrap("Sig::new", "unwrap")
          /\ UNCHANGED <<visited, partial_sigs>>
       \/ /\ Unwrap("sign", "unwrap")
          /\ UNCHANGED <<visited, partial_sigs>>
       \/ /\ \E i \in (DOMAIN shares) \ visited :
               visited' = visited \cup {i}
          /\ \E n \in Nonce :
               partial_sigs' = Append(partial_sigs, partial_sign(message, n))
          /\ log' = log \o <<Call("sign", "threshold"), Println("Partial Signature")>>
          /\ pc' = pc
          /\ exit_code' = exit_code
    /\ UNCHANGED <<envVars, public_key, secret_key, signature, verified, valid_message,
                   kemVars, shares, hybVars>>

aggregate_signatures_Last(sigs) == sigs[Len(sigs)]

\* QuantumSafeThreshold::aggregate_signatures: partial_sigs[0].clone()
aggregate_signatures(sigs) == sigs[1]

\* let aggregated_signature = threshold.aggregate_signatures(partial_sigs);
\* indexing an empty Vec panics
ThrAggregate ==
    /\ prog = "toolkit"
    /\ pc = "thr_sign"
    /\ Cardinality(visited) = LoopLength
    /\ IF partial_sigs = <<>>
       THEN /\ log' = log \o <<Println("Aggregating partial signatures..."),
                               Panic("index out of bounds")>>
            /\ pc' = "panicked"
            /\ exit_code' = Panicked
            /\ UNCHANGED signature
       ELSE /\ signature' = aggregate_signatures(partial_sigs)
            /\ log' = log \o <<Println("Aggregating partial signatures..."),
                               Call("aggregate", "threshold"),
                               Println("Aggregated Signature"),
                               Println("Verifying aggregated signature...")>>
            /\ pc' = "thr_verify"
            /\ exit_code' = exit_code
    /\ UNCHANGED <<envVars, public_key, secret_key, verified, valid_message, kemVars,
                   thrVars, hybVars>>

\* threshold.verify_signature(message, &aggregated_signature); threshold() returns
ThrVerify ==
    /\ prog = "toolkit"
    /\ pc = "thr_verify"
    /\ \/ /\ Unwrap("Sig::new", "unwrap")
          /\ UNCHANGED verified
       \/ /\ \E r \in ThresholdVerifySignature(public_key, message, signature) :
               /\ verified' = IF r = "true" THEN "ok" ELSE "err"
               /\ log' = log \o <<Call("verify", "threshold"),
                                  Println(IF r = "true"
                                          THEN "Signature verification successful!"
                                          ELSE "Signature verification failed!")>>
          /\ pc' = "return"
          /\ exit_code' = exit_code
    /\ UNCHANGED <<envVars, public_key, secret_key, signature, valid_message, kemVars,
                   thrVars, hybVars>>

(***************************************************************************)
(* hybrid_keys.rs                                                          *)
(***************************************************************************)
\* SystemRandom::fill, Ed25519KeyPair::from_seed_unchecked, sign_classically,
\* private_key.public_key()
HybClassic ==
    /\ prog = "toolkit"
    /\ pc = "hyb_classic"
    /\ \/ /\ Unwrap("rng.fill", "unwrap")
          /\ UNCHANGED <<private_key, classic_public_key, classic_signature>>
       \/ /\ Unwrap("from_seed_unchecked", "unwrap")
          /\ UNCHANGED <<private_key, classic_public_key, classic_signature>>
       \/ /\ \E seed \in Byte :
               /\ private_key' = <<seed>>
               /\ classic_signature' = sign_classically(message, <<seed>>)
               /\ classic_public_key' = PkOf(<<seed>>)
          /\ log' = log \o <<Call("keypair", "ed25519"), Call("sign", "ed25519"),
                             Println("Classical Ed25519 Key Pair")>>
          /\ pc' = "hyb_pqc"
          /\ exit_code' = exit_code
    /\ UNCHANGED <<envVars, public_key, secret_key, signature, verified, valid_message,
                   kemVars, thrVars, hybrid_signature, classic_valid>>

\* Sig::new(Dilithium2), sig.keypair(), sig.sign(data, &pqc_private_key)
HybPqc ==
    /\ prog = "toolkit"
    /\ pc = "hyb_pqc"
    /\ \/ /\ Unwrap("Sig::new", "unwrap")
          /\ UNCHANGED <<public_key, secret_key, signature>>
       \/ /\ Unwrap("keypair", "unwrap")
          /\ UNCHANGED <<public_key, secret_key, signature>>
       \/ /\ Unwrap("sign", "unwrap")
          /\ UNCHANGED <<public_key, secret_key, signature>>
       \/ /\ \E kp \in KeyPairs, n \in Nonce :
               /\ public_key' = kp[1]
               /\ secret_key' = kp[2]
               /\ signature' = LibSign(message, kp[2], n)
          /\ log' = log \o <<Call("keypair", "dilithium2"), Call("sign", "dilithium2"),
                             Println("PQC Dilithium2 Key Pair")>>
          /\ pc' = "hyb_concat"
          /\ exit_code' = exit_code
    /\ UNCHANGED <<envVars, verified, valid_message, kemVars, thrVars, hybVars>>

\* let hybrid_signature = [classic_signature.as_ref(), pqc_signature.as_ref()].concat();
HybConcat ==
    /\ prog = "toolkit"
    /\ pc = "hyb_concat"
    /\ hybrid_signature' = classic_signature \o signature
    /\ log' = log \o <<Println("Hybrid Signature")>>
    /\ pc' = "hyb_verify"
    /\ UNCHANGED <<envVars, public_key, secret_key, signature, verified, valid_message,
                   kemVars, thrVars, private_key, classic_public_key, classic_signature,
                   classic_valid, exit_code>>

\* the concatenation handed to sig.verify in place of the Dilithium2 signature
pqc_signature_Hybrid == hybrid_signature

\* the signature handed to sig.verify(data, &pqc_signature, &pqc_public_key)
pqc_signature == signature

\* if classic_valid && pqc_valid { "All signatures are valid! ..." } else { "... failed!" }
HybVerdict(classic, pqc) ==
    IF classic /\ pqc
    THEN "All signatures are valid! Hybrid signature is secure!"
    ELSE "Signature verification failed!"

\* classic_valid, pqc_valid and the verdict; hybrid_keys() returns
HybVerify ==
    /\ prog = "toolkit"
    /\ pc = "hyb_verify"
    /\ \E c \in verify_classically(message, classic_signature, classic_public_key),
          q \in SigVerify(message, pqc_signature, public_key) :
         /\ classic_valid' = IF c = "true" THEN "ok" ELSE "err"
         /\ verified' = IF is_ok(q) THEN "ok" ELSE "err"
         /\ log' = log \o <<Call("verify", "ed25519"), Call("verify", "dilithium2"),
                            Println("Verification Results"),
                            Println(HybVerdict(c = "true", is_ok(q)))>>
    /\ pc' = "return"
    /\ UNCHANGED <<envVars, public_key, secret_key, signature, valid_message, kemVars,
                   thrVars, private_key, classic_public_key, classic_signature,
                   hybrid_signature, exit_code>>

\* schnorr(), threshold() and hybrid_keys() return to main's loop: their locals
\* are dropped, and the loop starts its next iteration
Return ==
    /\ prog = "toolkit"
    /\ pc = "return"
    /\ ResetLocals
    /\ pc' = "menu"
    /\ UNCHANGED <<envVars, kemVars, log, exit_code>>

(***************************************************************************)
(* Reading the log.                                                        *)
(***************************************************************************)
HasEvent(e) == \E i \in 1..Len(log) : log[i] = e
HasKind(k) == \E i \in 1..Len(log) : log[i][1] = k
IsPrefix(s, t) == Len(s) <= Len(t) /\ s = SubSeq(t, 1, Len(s))
\* the public key of the secret key that made a signature
SignerKey(sig) == PkOf(<<sig[1]>>)

Next ==
    \/ PqKeypair
    \/ PqSign
    \/ PqOpen
    \/ KemKeypair
    \/ KemEncapsulate
    \/ KemDecapsulate
    \/ KemCompare
    \/ Menu
    \/ AuthNew
    \/ AuthSign
    \/ AuthVerify
    \/ AuthSave
    \/ AuthTerminate
    \/ SchNew
    \/ SchSign
    \/ SchVerify
    \/ ThrNew
    \/ ThrSplit
    \/ ThrPartialSign
    \/ ThrAggregate
    \/ ThrVerify
    \/ HybClassic
    \/ HybPqc
    \/ HybConcat
    \/ HybVerify
    \/ Return

Spec == Init /\ [][Next]_vars

\* the same programs over libraries that may answer anything
SpecAnyLib == InitAnyLib /\ [][Next]_vars

\* the programs over a correct library or over one that may answer anything
InitEitherLib == \E lib \in {"correct", "arbitrary"} : Start(Programs, lib)

SpecEitherLib == InitEitherLib /\ [][Next]_vars

(***************************************************************************)
(* The verification wrappers as functions: each is called once on a        *)
(* public key, a message and a signature drawn from every combination of   *)
(* signer and signed message.                                              *)
(***************************************************************************)
OqsWrappers == {"QuantumSafeAuth::verify_signature", "PQSchnorr::verify",
                "QuantumSafeThreshold::verify_signature"}
Wrappers == OqsWrappers \cup {"verify_classically", "open"}

Messages == {PqMessage, AuthMessage}

InitWrappers ==
    /\ prog \in Wrappers
    /\ library = "correct"
    /\ pc = "call"
    /\ choice = <<>>
    /\ message \in Messages
    /\ public_key \in {kp[1] : kp \in KeyPairs}
    /\ secret_key = <<>>
    /\ signature \in IF prog = "verify_classically"
                     THEN {sign_classically(m, kp[2]) : m \in Messages, kp \in KeyPairs}
                     ELSE {LibSign(m, kp[2], n) : m \in Messages, kp \in KeyPairs, n \in Nonce}
    /\ verified = "none"
    /\ valid_message = ""
    /\ shared_secret_1 = <<>>
    /\ ciphertext = <<>>
    /\ shared_secret_2 = <<>>
    /\ shares = <<>>
    /\ visited = {}
    /\ partial_sigs = <<>>
    /\ private_key = <<>>
    /\ classic_public_key = <<>>
    /\ classic_signature = <<>>
    /\ hybrid_signature = <<>>
    /\ classic_valid = "none"
    /\ file = Absent
    /\ log = <<>>
    /\ exit_code = Running

\* what the wrapper under test returns on its arguments
WrapperResult ==
    CASE prog = "QuantumSafeAuth::verify_signature" ->
            AuthVerifySignature(public_key, message, signature)
      [] prog = "PQSchnorr::verify" ->
            SchnorrVerify(public_key, message, signature)
      [] prog = "QuantumSafeThreshold::verify_signature" ->
            ThresholdVerifySignature(public_key, message, signature)
      [] prog = "verify_classically" ->
            verify_classically(message, signature, public_key)
      [] OTHER ->
            {IF r[1] = "Ok" THEN "true" ELSE "false" : r \in OpenAnswers(signature, public_key)}

\* the call returns true or false, or the process aborts
CallWrapper ==
    /\ pc = "call"
    /\ \/ /\ prog \in OqsWrappers
          /\ Unwrap("Sig::new", "unwrap")
          /\ UNCHANGED verified
       \/ /\ \E r \in WrapperResult :
               IF r \in {"true", "false"}
               THEN /\ verified' = (IF r = "true" THEN "ok" ELSE "err")
                    /\ pc' = "returned"
                    /\ exit_code' = exit_code
                    /\ log' = Append(log, Call("verify", prog))
               ELSE /\ verified' = verified
                    /\ pc' = "panicked"
                    /\ exit_code' = Panicked
                    /\ log' = log \o <<Call("verify", prog), Panic("unwrap")>>
    /\ UNCHANGED <<envVars, public_key, secret_key, signature, valid_message, kemVars,
                   thrVars, hybVars>>

NextWrappers == CallWrapper

SpecWrappers == InitWrappers /\ [][NextWrappers]_vars

(***************************************************************************)
(* The claims.                                                             *)
(***************************************************************************)

\* C1: signature round trip.  In every signature demo (dilithium3, falcon512,
\* sphincs+; authentication, schnorr, threshold, hybrid), over libraries that keep
\* their contract, verifying or opening the signature the run made under the
\* run's public key succeeds: the failure branch is never taken, a finished
\* demo has taken its success branch, and open recovers exactly the message.
C1_SignatureRoundTrip ==
    (prog \in PqSigPrograms \cup {"toolkit"}) =>
        /\ verified # "err"
        /\ classic_valid # "err"
        /\ ~HasEvent(Println("Signature verification failed!"))
        /\ (prog \in PqSigPrograms /\ pc = "done") =>
                /\ verified = "ok"
                /\ valid_message = PqMessage
                /\ HasEvent(Println("Verified successfully"))
        /\ (prog = "toolkit" /\ pc \in {"auth_save", "auth_terminate", "return"}) =>
                /\ verified = "ok"
                /\ \/ HasEvent(Println("Signature verification successful!"))
                   \/ HasEvent(Println("All signatures are valid! Hybrid signature is secure!"))
        /\ (prog = "toolkit" /\ pc = "done" /\ secret_key # <<>>) => verified = "ok"
        /\ (prog = "toolkit" /\ pc = "return" /\ private_key # <<>>) => classic_valid = "ok"

C1_Witness ==
    /\ prog = "toolkit"
    /\ pc = "return"
    /\ classic_valid = "ok"
    /\ verified = "ok"

\* C2: KEM round trip.  In frodokem, ntru and example_encrypt_decrypt_workflow,
\* over libraries that keep their contract, the decapsulated secret equals the
\* secret the same encapsulate call returned: the match is reported and
\* assert_eq! never fails.
C2_KemRoundTrip ==
    prog \in KemPrograms =>
        /\ shared_secret_2 # <<>> =>
                /\ shared_secret_2 = shared_secret_1
                /\ ciphertext = LibEncapsulate(public_key, shared_secret_1[1])[2]
        /\ verified # "err"
        /\ pc # "panicked"
        /\ pc = "done" =>
                /\ verified = "ok"
                /\ prog = "frodokem" => HasEvent(Println("Shared secrets match!"))
                /\ prog = "ntru" => HasEvent(Println("Shared secrets match: true"))

C2_Witness ==
    /\ prog = "ntru_workflow"
    /\ pc = "done"
    /\ shared_secret_2 = shared_secret_1
    /\ shared_secret_2 # <<>>

\* C3: signature rejection.  Each verification wrapper, called with a signature
\* made by another key pair's secret key or over another message, returns
\* false (open: Err) and does not abort.
C3_Rejection ==
    (HasKind("verify") /\
         (SignerKey(signature) # public_key \/ (prog # "open" /\ signature[2] # message))) =>
        /\ pc = "returned"
        /\ verified = "err"
        /\ exit_code = Running

C3_Witness ==
    /\ prog = "QuantumSafeAuth::verify_signature"
    /\ pc = "returned"
    /\ verified = "err"
    /\ SignerKey(signature) = public_key
    /\ signature[2] # message

\* C4: threshold aggregation selects the first partial signature.
\* aggregate_signatures of the list built so far is its element 0 whatever the
\* other elements are, and the signature threshold() verifies is the first
\* partial signature it made.
C4_AggregateIsFirst ==
    (prog = "toolkit" /\ partial_sigs # <<>>) =>
        /\ aggregate_signatures(partial_sigs) = partial_sigs[1]
        /\ \A k \in 1..Len(partial_sigs) :
               aggregate_signatures(SubSeq(partial_sigs, k, Len(partial_sigs)))
                   = partial_sigs[k]
        /\ pc \in {"thr_verify", "return"} => signature = partial_sigs[1]

C4_Witness ==
    /\ prog = "toolkit"
    /\ pc = "return"
    /\ Len(partial_sigs) = THRESHOLD
    /\ signature = partial_sigs[1]
    /\ partial_sigs[1] # partial_sigs[2]
    /\ partial_sigs[1] # partial_sigs[THRESHOLD]

C6_PublicKeyFile ==
    /\ HasEvent(Println("Public key saved to file.")) =>
            /\ file = Present(public_key)
            /\ file[2] # secret_key
    /\ ~HasKind("save_to_file") => file \in InitialFiles
    /\ HasKind("save_to_file") =>
            \/ file \in InitialFiles
            \/ file[1] /\ IsPrefix(file[2], public_key)

C6_Witness ==
    /\ prog = "toolkit"
    /\ pc = "done"
    /\ HasEvent(Println("Public key saved to file."))
    /\ file = Present(public_key)

(***************************************************************************)
(* The operations of a run, in order: its library calls, without what it   *)
(* prints and without the failures that end it.                            *)
(***************************************************************************)
IsOperation(e) == e[1] \notin {"print", "eprint", "failed", "panic"}
Ops(events) == SelectSeq(events, IsOperation)

\* the operations of the demo behind an arm of main's match, read off the source
DemoOps(target) ==
    CASE target = "auth_new" ->
            <<Call("keypair", "authentication"), Call("sign", "authentication"),
              Call("verify", "authentication"), Call("save_to_file", "public_key.bin"),
              Call("exit", "0")>>
      [] target = "hyb_classic" ->
            <<Call("keypair", "ed25519"), Call("sign", "ed25519"),
              Call("keypair", "dilithium2"), Call("sign", "dilithium2"),
              Call("verify", "ed25519"), Call("verify", "dilithium2")>>
      [] target = "sch_new" ->
            <<Call("keypair", "schnorr"), Call("sign", "schnorr"), Call("verify", "schnorr")>>
      [] target = "thr_new" ->
            <<Call("keypair", "threshold"), Call("random", "shares"),
              Call("sign", "threshold"), Call("sign", "threshold"), Call("sign", "threshold"),
              Call("aggregate", "threshold"), Call("verify", "threshold")>>
      [] OTHER -> <<>>

\* the operations of a whole run of a pqcrypto program, and of one iteration of the
\* toolkit's loop that reads `line`
FixedOpsFor(line) ==
    CASE prog \in PqSigPrograms ->
            <<Call("keypair", prog), Call("sign", prog), Call("open", prog)>>
      [] prog \in KemPrograms ->
            <<Call("keypair", prog), Call("encapsulate", prog), Call("decapsulate", prog)>>
      [] OTHER ->
            <<Call("read_line", "stdin")>> \o DemoOps(Dispatch(trim(line)))

\* C7: verification failures are reported by printed text only.  Over libraries
\* that may answer anything, a program whose verification failed or whose
\* secrets differ does not panic, goes through the same operations as a run
\* that succeeds and ends with status 0; authentication still saves the public
\* key and exits with status 0.  (example_encrypt_decrypt_workflow, which main
\* never calls, is not a program.)
C7_FailureOnlyPrinted ==
    (prog # "ntru_workflow" /\ (verified = "err" \/ classic_valid = "err")) =>
        /\ pc # "panicked"
        /\ exit_code \in {Running, Exited(0)}
        /\ IsPrefix(Ops(log), FixedOpsFor(choice))
        /\ pc \in {"done", "return"} => Ops(log) = FixedOpsFor(choice)
        /\ pc = "done" => exit_code = Exited(0)
        /\ (prog = "toolkit" /\ pc = "done") =>
                /\ HasEvent(Call("save_to_file", "public_key.bin"))
                /\ log[Len(log)] = Call("exit", "0")
        /\ (prog = "frodokem" /\ pc = "done") =>
                /\ HasEvent(Println("Shared secrets DO NOT match!"))
                /\ log[Len(log)] = Println("FrodoKEM-976-AES example completed.")

C7_Witness ==
    /\ prog = "toolkit"
    /\ pc = "done"
    /\ verified = "err"
    /\ HasEvent(Println("Signature verification failed!"))
    /\ HasEvent(Println("Public key saved to file."))
    /\ exit_code = Exited(0)

\* C8: library-call failures abort.  Whenever an unwrapped call (Sig::new, keypair,
\* sign, the RNG fill, the Ed25519 constructor, flush, read_line) returns an
\* error, the process panics at that call: the failure is the last thing the
\* run did before the panic, the process is gone (no step is enabled), and what
\* the later steps would set is still unset.
C8_FailuresAbort ==
    /\ \A i \in 1..Len(log) :
           log[i][1] = "failed" => (i = Len(log) - 1 /\ log[Len(log)][1] = "panic")
    /\ HasKind("failed") =>
           /\ pc = "panicked"
           /\ exit_code = Panicked
           /\ verified = "none"
           /\ ~HasKind("save_to_file")
    /\ pc = "panicked" => ~ENABLED Next

C8_Witness ==
    /\ prog = "toolkit"
    /\ pc = "panicked"
    /\ HasEvent(Call("failed", "sign"))
    /\ HasEvent(Call("keypair", "authentication"))
    /\ signature = <<>>

(***************************************************************************)
(* Order of the calls within a run.                                        *)
(***************************************************************************)
Producers == {"sign", "encapsulate"}
Consumers == {"verify", "open", "decapsulate"}
ResultPrints ==
    { Println("Verified successfully"), Println("Signature verification failed!"),
      Println("Signature verification successful!"),
      Println("All signatures are valid! Hybrid signature is secure!"),
      Println("Shared secrets match!"), Println("Shared secrets DO NOT match!"),
      Println("Shared secrets match: true"), Println("Shared secrets match: false") }
Once(i) == \A j \in 1..Len(log) : log[j] = log[i] => j = i

\* the clauses of C9 that hold of every demo
OrderedCalls ==
    /\ \A i \in 1..Len(log) :
           /\ log[i][1] \in Producers =>
                  \E j \in 1..(i - 1) : log[j] = Call("keypair", log[i][2])
           /\ log[i][1] \in Consumers =>
                  /\ Once(i)
                  /\ \E j \in 1..(i - 1) : log[j][1] \in Producers /\ log[j][2] = log[i][2]
           /\ log[i] \in ResultPrints =>
                  \E j \in 1..(i - 1) : log[j][1] \in Consumers
    /\ (pc \in {"done", "return"} /\ HasKind("keypair")) =>
           /\ \E i \in 1..Len(log) : log[i][1] \in Consumers
           /\ prog # "ntru_workflow" => \E i \in 1..Len(log) : log[i] \in ResultPrints
    /\ (prog \in PqSigPrograms \cup {"toolkit"} /\ verified # "none") =>
           \E n \in Nonce : signature = LibSign(message, secret_key, n)
    /\ (prog \in KemPrograms /\ shared_secret_2 # <<>>) =>
           \E ss \in Byte : <<shared_secret_1, ciphertext>> = LibEncapsulate(public_key, ss)

\* C9 as stated: key pair generation happens exactly once in a run and before any
\* sign/encapsulate, every sign/encapsulate before the verify/decapsulate of its
\* output, the result is printed after it, and no step is repeated or skipped.
C9_Original ==
    /\ OrderedCalls
    /\ Cardinality({i \in 1..Len(log) : log[i][1] = "keypair"}) <= 1
    /\ \A i, j \in 1..Len(log) :
           (log[i][1] = "keypair" /\ log[j][1] \in Producers) => i < j

\* C9, amended: each key pair is generated exactly once and before any
\* sign/encapsulate made with it (hybrid generates two, the second after the
\* first has signed); every sign/encapsulate comes before the one
\* verify/decapsulate of its output and the result is printed after that; only
\* threshold's signing is repeated, THRESHOLD times; what is verified was signed
\* earlier in the same run.
C9_LinearPerKey ==
    /\ OrderedCalls
    /\ \A i \in 1..Len(log) :
           /\ log[i][1] = "keypair" => Once(i)
           /\ (log[i][1] \in Producers /\ log[i][2] # "threshold") => Once(i)
    /\ Cardinality({i \in 1..Len(log) : log[i] = Call("sign", "threshold")}) <= THRESHOLD
    /\ Cardinality({i \in 1..Len(log) : log[i][1] = "keypair"})
           <= (IF HasEvent(Call("keypair", "ed25519")) THEN 2 ELSE 1)

C9_Witness ==
    /\ prog = "toolkit"
    /\ pc = "return"
    /\ HasEvent(Call("keypair", "ed25519"))
    /\ HasEvent(Call("keypair", "dilithium2"))
    /\ HasEvent(Call("verify", "dilithium2"))

\* C10 as stated: the operations a program performs are the same in every run and
\* do not depend on any runtime input: whatever line the toolkit had read, it
\* would have performed the operations it has performed.
C10_Original ==
    \A line \in InputLines : IsPrefix(Ops(log), FixedOpsFor(line))

\* C10, amended: the five pqcrypto programs perform the same operations in every
\* run and read no input.  The toolkit takes no flags either, but in each
\* iteration of its loop the line read from stdin selects which demo runs and
\* whether the process exits; for the line read, the operations are fixed.
C10_FixedOperations ==
    /\ IsPrefix(Ops(log), FixedOpsFor(choice))
    /\ pc \in {"done", "return"} => Ops(log) = FixedOpsFor(choice)
    /\ prog # "toolkit" => (choice = <<>> /\ ~HasKind("read_line"))
    /\ (prog = "toolkit" /\ pc \notin {"start", "panicked"}) =>
           log[2] = Call("read_line", "stdin")

C10_Witness ==
    /\ prog = "toolkit"
    /\ pc = "return"
    /\ Cardinality(visited) = THRESHOLD
    /\ Ops(log) = FixedOpsFor(<<"4", "\n">>)

(***************************************************************************)
(* The toolkit's menu.                                                     *)
(***************************************************************************)
\* the demo a library call of the log belongs to
DemoOfEvent(e) ==
    CASE e[2] = "authentication" \/ e[1] \in {"save_to_file", "exit"} -> "authentication"
      [] e[2] \in {"ed25519", "dilithium2"} -> "hybrid"
      [] e[2] = "schnorr" -> "schnorr"
      [] e[2] \in {"threshold", "shares"} -> "threshold"
      [] OTHER -> "none"

\* the demos that have made a library call in this iteration
DemosRun == { DemoOfEvent(Ops(log)[i]) : i \in 1..Len(Ops(log)) } \ {"none"}

\* the lines read in this iteration
IsRead(e) == e[1] = "read_line"
LinesRead == Len(SelectSeq(log, IsRead))

\* what the claim says the trimmed line selects
Selected(t) ==
    CASE t = <<"1">> -> "authentication"
      [] t = <<"2">> -> "hybrid"
      [] t = <<"3">> -> "schnorr"
      [] t = <<"4">> -> "threshold"
      [] t = <<"5">> -> "exit"
      [] OTHER -> "invalid"

\* the line the arm of a demo prints before it calls the demo
RunningPrint(demo) ==
    CASE demo = "authentication" -> Println("Running Quantum-Safe Authentication...")
      [] demo = "hybrid" -> Println("Running Hybrid Cryptography...")
      [] demo = "schnorr" -> Println("Running Post-Quantum Schnorr Signatures...")
      [] demo = "threshold" -> Println("Running Threshold Signatures...")
      [] OTHER -> Println("")

DemoNames == {"authentication", "hybrid", "schnorr", "threshold"}

\* the iteration got past read_line
LineWasRead == prog = "toolkit" /\ pc # "start" /\ log[2][1] # "failed"

\* C11: in each iteration of the toolkit's loop exactly one line is read; after
\* trimming white space "1", "2", "3", "4" run the authentication, hybrid,
\* schnorr, threshold demo and no other demo; "5" runs no demo and leaves the
\* loop; every other line, the empty one included, runs no demo, prints the
\* invalid-option message and the menu is shown again.
C11_MenuDispatch ==
    /\ prog = "toolkit" => LinesRead <= 1
    /\ LineWasRead =>
         LET sel == Selected(trim(choice)) IN
         /\ LinesRead = 1
         /\ sel \in DemoNames =>
              /\ DemosRun \subseteq {sel}
              /\ log[3] = RunningPrint(sel)
              /\ \A d \in DemoNames \ {sel} : ~HasEvent(RunningPrint(d))
              /\ pc \in {"return", "done"} => DemosRun = {sel}
              /\ pc # "menu" \/ DemosRun = {sel}
              /\ ~HasEvent(Println("Invalid option. Please try again."))
         /\ sel = "exit" =>
              /\ log = <<Println("menu"), Call("read_line", "stdin"), Println("Exiting...")>>
              /\ pc = "done"
              /\ exit_code = Exited(0)
         /\ sel = "invalid" =>
              /\ log = <<Println("menu"), Call("read_line", "stdin"),
                         Println("Invalid option. Please try again.")>>
              /\ pc = "menu"
              /\ exit_code = Running
              /\ ENABLED Menu

C11_Witness ==
    /\ prog = "toolkit"
    /\ choice = <<"\t", "3", " ", "\n">>
    /\ pc = "return"
    /\ DemosRun = {"schnorr"}
    /\ HasEvent(Call("verify", "schnorr"))

\* the process has ended
Terminated == pc \in {"done", "panicked"}

\* C12, as stated: the toolkit process ends only after option "5" or option "1",
\* so with lines that are never "1" or "5" it does not end.
C12_Original ==
    (prog = "toolkit" /\ Terminated) =>
        (LineWasRead /\ Selected(trim(choice)) \in {"authentication", "exit"})

\* C12, amended: the toolkit process ends with status 0 only after option "5"
\* (loop break) or option "1" (authentication ends with process::exit(0) and
\* never returns to the menu); any other end is a panic of a failed flush,
\* read_line or library call.  After options "2", "3", "4" and after any
\* invalid line, the empty line of an exhausted stdin included, the process is
\* still running and the menu is shown again unless such a panic happened.
C12_MenuTermination ==
    prog = "toolkit" =>
        LET sel == Selected(trim(choice)) IN
        /\ exit_code # Running <=> Terminated
        /\ Terminated => ~ENABLED Next
        /\ pc = "done" =>
             /\ LineWasRead
             /\ sel \in {"authentication", "exit"}
             /\ exit_code = Exited(0)
             /\ sel = "authentication" => log[Len(log)] = Call("exit", "0")
        /\ pc = "panicked" =>
             /\ exit_code = Panicked
             /\ log[Len(log)][1] = "panic"
             /\ log[Len(log) - 1][1] = "failed"
        /\ (LineWasRead /\ sel = "authentication") => pc \notin {"menu", "return"}
        /\ (LineWasRead /\ sel \in {"hybrid", "schnorr", "threshold", "invalid"}) =>
             /\ pc # "done"
             /\ pc # "panicked" => ENABLED Next
        /\ pc = "return" => (ENABLED Return /\ sel \in {"hybrid", "schnorr", "threshold"})
        /\ pc = "menu" => ENABLED Menu

C12_Witness ==
    /\ prog = "toolkit"
    /\ pc = "menu"
    /\ Selected(trim(choice)) = "hybrid"
    /\ DemosRun = {"hybrid"}
    /\ exit_code = Running

(***************************************************************************)
(* The hybrid demo.                                                        *)
(***************************************************************************)
IsVerify(e) == e[1] = "verify"

\* the hybrid demo is the one running (or the one that has just returned)
InHybrid == LineWasRead /\ Selected(trim(choice)) = "hybrid"

\* C13: the hybrid signature is the Ed25519 signature followed by the
\* Dilithium2 signature, its length the sum of theirs; "All signatures are
\* valid" is printed exactly when the classical and the PQC verification of the
\* individual signatures both succeed, and the failure message otherwise; the
\* concatenation is never verified: the demo makes two verifications, and over
\* a correct library, which accepts the concatenation under neither key, both
\* succeed.
C13_HybridVerdict ==
    /\ (InHybrid /\ pc \in {"hyb_verify", "return"}) =>
         /\ hybrid_signature = classic_signature \o signature
         /\ Len(hybrid_signature) = Len(classic_signature) + Len(signature)
         /\ SubSeq(hybrid_signature, 1, Len(classic_signature)) = classic_signature
         /\ SubSeq(hybrid_signature, Len(classic_signature) + 1, Len(hybrid_signature))
              = signature
    /\ (InHybrid /\ pc \notin {"return", "menu"}) =>
         /\ ~HasKind("verify")
         /\ ~HasEvent(Println("All signatures are valid! Hybrid signature is secure!"))
         /\ ~HasEvent(Println("Signature verification failed!"))
    /\ (InHybrid /\ pc = "return") =>
         /\ classic_valid \in {"ok", "err"}
         /\ verified \in {"ok", "err"}
         /\ HasEvent(Println("All signatures are valid! Hybrid signature is secure!"))
              <=> (classic_valid = "ok" /\ verified = "ok")
         /\ HasEvent(Println("Signature verification failed!"))
              <=> ~(classic_valid = "ok" /\ verified = "ok")
         /\ SelectSeq(log, IsVerify)
              = <<Call("verify", "ed25519"), Call("verify", "dilithium2")>>
         /\ library = "correct" =>
              /\ ~Ed25519Verify(message, hybrid_signature, classic_public_key)
              /\ ~LibVerify(message, hybrid_signature, public_key)
              /\ classic_valid = "ok"
              /\ verified = "ok"

\* the classical verification succeeded, the PQC one failed: the failure message
C13_Witness ==
    /\ InHybrid
    /\ pc = "return"
    /\ classic_valid = "ok"
    /\ verified = "err"
    /\ HasEvent(Println("Signature verification failed!"))
    /\ Len(hybrid_signature) = 5

(***************************************************************************)
(* The threshold demo.                                                     *)
(***************************************************************************)
IsThresholdSign(e) == e = Call("sign", "threshold")

\* the threshold demo is the one running (or the one that has just returned)
InThreshold == LineWasRead /\ Selected(trim(choice)) = "threshold"

\* C14: threshold() makes exactly THRESHOLD (3) partial signatures, one per
\* entry the loop takes from the TOTAL_SHARES (5) shares, all over the same
\* message with the demo's secret key; as 1 <= THRESHOLD <= TOTAL_SHARES the
\* list given to aggregate_signatures is never empty, its index-0 access never
\* panics, and the aggregated signature verifies under the demo's public key.
C14_ThresholdCounts ==
    /\ 1 <= THRESHOLD
    /\ THRESHOLD <= TOTAL_SHARES
    /\ ~HasEvent(Panic("index out of bounds"))
    /\ (InThreshold /\ pc \in {"thr_sign", "thr_verify", "return"}) =>
         /\ Cardinality(DOMAIN shares) = TOTAL_SHARES
         /\ visited \subseteq DOMAIN shares
         /\ Cardinality(visited) <= THRESHOLD
         /\ Len(partial_sigs) = Cardinality(visited)
         /\ Len(SelectSeq(log, IsThresholdSign)) = Len(partial_sigs)
         /\ \A i \in 1..Len(partial_sigs) :
              /\ partial_sigs[i][1] = secret_key[1]
              /\ partial_sigs[i][2] = ThresholdMessage
              /\ LibVerify(ThresholdMessage, partial_sigs[i], public_key)
    /\ ENABLED ThrAggregate => partial_sigs # <<>>
    /\ (InThreshold /\ pc \in {"thr_verify", "return"}) =>
         /\ Len(partial_sigs) = THRESHOLD
         /\ HasEvent(Call("aggregate", "threshold"))
         /\ LibVerify(ThresholdMessage, signature, public_key)
    /\ (InThreshold /\ pc = "return") =>
         /\ verified = "ok"
         /\ HasEvent(Println("Signature verification successful!"))

\* a finished demo whose loop took entries other than the shares 1, 2 and 3
C14_Witness ==
    /\ InThreshold
    /\ pc = "return"
    /\ Len(partial_sigs) = THRESHOLD
    /\ visited = {1, 3, 4}
    /\ verified = "ok"

(***************************************************************************)
(* pqcrypto/ntru-encrypt: generate_keypair_with_error_handling and         *)
(* reconstruct_keys_from_bytes as functions.  A key object is              *)
(* <<type, bytes>>; the functions are called on every pair of byte strings *)
(* of up to MaxKeyLen bytes and on the output of a key generation.         *)
(***************************************************************************)
\* public_key_bytes(), secret_key_bytes(): the lengths of the library's keys
public_key_bytes == Len((CHOOSE kp \in KeyPairs : TRUE)[1])
secret_key_bytes == Len((CHOOSE kp \in KeyPairs : TRUE)[2])

\* the key objects keypair() may return
NtruKeyPairs == {<<<<"PublicKey", kp[1]>>, <<"SecretKey", kp[2]>>>> : kp \in KeyPairs}

\* PublicKey::as_bytes, SecretKey::as_bytes
as_bytes(key) == key[2]

\* PublicKey::from_bytes, SecretKey::from_bytes: every Result they may return
FromBytesAnswers(type, bytes, length) ==
    IF library = "correct"
    THEN {IF Len(bytes) = length THEN <<"Ok", <<type, bytes>>>> ELSE <<"Err", "BadLength">>}
    ELSE {<<"Ok", <<type, bytes>>>>, <<"Err", "BadLength">>}

\* generate_keypair_with_error_handling: every Result it may return
generate_keypair_with_error_handling ==
    {<<"Err", "Failed to generate NTRU keypair">>}
        \cup {<<"Ok", <<as_bytes(kp[1]), as_bytes(kp[2])>>>> : kp \in NtruKeyPairs}

\* the two length checks made in the other order
reconstruct_keys_from_bytes_SkFirst(pk_bytes, sk_bytes) ==
    IF Len(sk_bytes) # secret_key_bytes
    THEN {<<"Err", "Invalid secret key length">>}
    ELSE IF Len(pk_bytes) # public_key_bytes
    THEN {<<"Err", "Invalid public key length">>}
    ELSE {IF p[1] # "Ok" THEN <<"Err", "Failed to reconstruct public key">>
          ELSE IF s[1] # "Ok" THEN <<"Err", "Failed to reconstruct secret key">>
          ELSE <<"Ok", <<p[2], s[2]>>>> :
             p \in FromBytesAnswers("PublicKey", pk_bytes, public_key_bytes),
             s \in FromBytesAnswers("SecretKey", sk_bytes, secret_key_bytes)}

\* reconstruct_keys_from_bytes(pk_bytes, sk_bytes): every Result it may return
reconstruct_keys_from_bytes(pk_bytes, sk_bytes) ==
    IF Len(pk_bytes) # public_key_bytes
    THEN {<<"Err", "Invalid public key length">>}
    ELSE IF Len(sk_bytes) # secret_key_bytes
    THEN {<<"Err", "Invalid secret key length">>}
    ELSE {IF p[1] # "Ok" THEN <<"Err", "Failed to reconstruct public key">>
          ELSE IF s[1] # "Ok" THEN <<"Err", "Failed to reconstruct secret key">>
          ELSE <<"Ok", <<p[2], s[2]>>>> :
             p \in FromBytesAnswers("PublicKey", pk_bytes, public_key_bytes),
             s \in FromBytesAnswers("SecretKey", sk_bytes, secret_key_bytes)}

\* the byte strings of up to MaxKeyLen bytes
ByteStrings == UNION {[1..n -> Byte] : n \in 0..MaxKeyLen}

\* the caller holds two byte strings, or is about to generate them
InitReconstruct ==
    /\ prog = "reconstruct_keys_from_bytes"
    /\ library \in {"correct", "arbitrary"}
    /\ pc \in {"generate", "call"}
    /\ choice = <<>>
    /\ message = ""
    /\ public_key \in (IF pc = "call" THEN ByteStrings ELSE {<<>>})
    /\ secret_key \in (IF pc = "call" THEN ByteStrings ELSE {<<>>})
    /\ signature = <<>>
    /\ verified = "none"
    /\ valid_message = ""
    /\ shared_secret_1 = <<>>
    /\ ciphertext = <<>>
    /\ shared_secret_2 = <<>>
    /\ shares = <<>>
    /\ visited = {}
    /\ partial_sigs = <<>>
    /\ private_key = <<>>
    /\ classic_public_key = <<>>
    /\ classic_signature = <<>>
    /\ hybrid_signature = <<>>
    /\ classic_valid = "none"
    /\ file = Absent
    /\ log = <<>>
    /\ exit_code = Running

\* let (pk_bytes, sk_bytes) = generate_keypair_with_error_handling()?
GenerateKeypair ==
    /\ pc = "generate"
    /\ \E r \in generate_keypair_with_error_handling :
         IF r[1] = "Ok"
         THEN /\ public_key' = r[2][1]
              /\ secret_key' = r[2][2]
              /\ log' = <<Call("keypair", "ntru"), Call("return", r)>>
              /\ pc' = "call"
         ELSE /\ UNCHANGED <<public_key, secret_key>>
              /\ log' = <<Call("failed", "keypair"), Call("return", r)>>
              /\ pc' = "generate_failed"
    /\ UNCHANGED <<envVars, signature, verified, valid_message, kemVars, thrVars, hybVars,
                   exit_code>>

\* reconstruct_keys_from_bytes(&pk_bytes, &sk_bytes)
Reconstruct ==
    /\ pc = "call"
    /\ \E r \in reconstruct_keys_from_bytes(public_key, secret_key) :
         log' = Append(log, Call("return", r))
    /\ pc' = "returned"
    /\ UNCHANGED <<envVars, public_key, secret_key, signature, verified, valid_message,
                   kemVars, thrVars, hybVars, exit_code>>

NextReconstruct ==
    \/ GenerateKeypair
    \/ Reconstruct

SpecReconstruct == InitReconstruct /\ [][NextReconstruct]_vars

\* what the last call returned
Returned == log[Len(log)][2]

\* C15: reconstruct_keys_from_bytes returns Err("Invalid public key length")
\* whenever the public-key input is not public_key_bytes() long, whatever the
\* secret-key input; otherwise Err("Invalid secret key length") whenever the
\* secret-key input is not secret_key_bytes() long; Ok only when both lengths
\* match; and on the byte vectors of a successful
\* generate_keypair_with_error_handling it returns Ok with keys whose bytes are
\* the inputs.
C15_Reconstruct ==
    (prog = "reconstruct_keys_from_bytes" /\ pc = "returned") =>
        /\ Len(public_key) # public_key_bytes =>
             Returned = <<"Err", "Invalid public key length">>
        /\ (Len(public_key) = public_key_bytes /\ Len(secret_key) # secret_key_bytes) =>
             Returned = <<"Err", "Invalid secret key length">>
        /\ Returned[1] = "Ok" =>
             /\ Len(public_key) = public_key_bytes
             /\ Len(secret_key) = secret_key_bytes
             /\ as_bytes(Returned[2][1]) = public_key
             /\ as_bytes(Returned[2][2]) = secret_key
        /\ (HasEvent(Call("keypair", "ntru")) /\ library = "correct") =>
             /\ Returned[1] = "Ok"
             /\ Returned[2] = <<<<"PublicKey", public_key>>, <<"SecretKey", secret_key>>>>
             /\ Returned[2] \in NtruKeyPairs

\* generated keys reconstructed
C15_Witness ==
    /\ prog = "reconstruct_keys_from_bytes"
    /\ pc = "returned"
    /\ HasEvent(Call("keypair", "ntru"))
    /\ library = "correct"
    /\ Returned[1] = "Ok"
    /\ as_bytes(Returned[2][1]) = public_key

====
